---------------------------- MODULE Spec2Model ----------------------------
(***************************************************************************)
(* State-machine model of ha-solarflow:                                    *)
(*   apps/solarflow_control.py  SolarFlowControl and its Controller        *)
(*                              strategies (the periodic control loop);    *)
(*   apps/solarflow.py          SolarFlow, the MQTT bridge (discovery,     *)
(*                              topic routing, property translation).      *)
(*                                                                         *)
(* Python floats are kept as fixed-point numbers counted in tenths, so     *)
(* that int() truncation and the "/ 10" conversions are real operations.   *)
(* Optional values are sequences: <<>> is None, <<v>> is the value v.      *)
(***************************************************************************)
EXTENDS Integers, Sequences, FiniteSets, TLC

VARIABLES
  \* ---- SolarFlowControl (solarflow_control.py) ----
  args,               \* self.args of the controller app (apps.yaml)
  ctl_status,         \* "created" | "running" | "failed" | "terminated"
  max_output,         \* self.max_output (tenths) once initialize() has set it
  controller,         \* self.controller: <<>> or <<class name>>
  controller_switch,  \* state of switch.solarflow_control: <<>>, <<"on">>, <<"off">>
  loop_handle,        \* TRUE while the run_every(control_loop) timer is scheduled
  ha_state,           \* HomeAssistant entity states read by get_value: entity -> tenths
  now,                \* datetime.now().time(), in hours of the day
  set_value_calls,    \* values passed to call_service('set_value') by the last handler
  ctl_last,           \* what the last controller handler did

  \* ---- SolarFlow bridge (solarflow.py) ----
  bridge_status,      \* "running" after initialize(), "terminated" after terminate()
  device_serial,      \* self.device_serial: <<>> or <<serial>>
  module_versions,    \* self.module_versions: module name -> version
  battery_packs,      \* self.battery_packs: sequence of pack serials
  topics,             \* self.topics: item -> descriptor
  command_topics,     \* self.command_topics, as the set of its elements
  cache,              \* self.cache: item -> value
  subscribed,         \* topics subscribed with mqtt_subscribe
  discovery_timers,   \* pending run_in(try_send_discovery) timers
  periodic_timers,    \* pending run_in(periodic_request_all) timers
  config_published,   \* item -> number of discovery descriptors published for it
  sent,               \* messages published by the last handler, in order
  last                \* what the last bridge handler was and what it was given

ctlVars == <<args, ctl_status, max_output, controller, controller_switch,
             loop_handle, ha_state, now, set_value_calls, ctl_last>>
bridgeVars == <<bridge_status, device_serial, module_versions, battery_packs, topics, command_topics, cache,
                subscribed, discovery_timers, periodic_timers, config_published,
                sent, last>>
vars == <<ctlVars, bridgeVars>>

None == <<>>
Some(v) == <<v>>

Min(a, b) == IF a <= b THEN a ELSE b
Max(a, b) == IF a >= b THEN a ELSE b

\* float(n) of a whole number n, in tenths
Float(n) == n * 10
\* int(x) of a float x given in tenths: truncation toward zero
ToInt(x) == IF x >= 0 THEN x \div 10 ELSE -((-x) \div 10)

(***************************************************************************)
(* solarflow_control.py                                                    *)
(***************************************************************************)
SOLARFLOW_BATTERY_SOC == "sensor.solarflow_battery"
HOUSE_POWER == "sensor.powermeter_house_active_power"
SOLARFLOW_OUTPUT_LIMIT == "number.solarflow_output_limit"
SOLARFLOW_MIN_SOC == "number.solarflow_min_soc"
CONTROLLER_SWITCH_NAME == "switch.solarflow_control"

DEFAULT_MAX_OUTPUT == 500
MinimizeGrid_CONSUMPTION_THRESHOLD == 5
NightUsage_CONSUMPTION_THRESHOLD == 10

ControllerClasses == {"AlwaysZero", "MinimizeGrid", "NightUsage"}
\* controller_class values naming no strategy: "Bogus" is no attribute of the
\* module (ImportError), "Controller" is the abstract base (TypeError)
OtherClassNames == {"Bogus", "Controller"}

\* Inputs of the controller, in tenths (10.0, 15.5, 20.0 percent, ...)
SocStates == {100, 155, 200}
MinSocStates == {150, 155}
OutputLimitStates == {0, 1000, 2000}
HousePowerStates == {-3000, -500, 30, 50, 80, 100, 10000}
Times == {3, 6, 18}
\* apps.yaml: max_output is optional; the two time boundaries of NightUsage
ArgsSet == [controller_class : ControllerClasses \cup OtherClassNames,
            max_output : {None, Some(100)},
            morning_cutoff_time : {6},
            evening_rampup_time : {18}]

EntityStates(entity) ==
  CASE entity = SOLARFLOW_BATTERY_SOC -> SocStates
    [] entity = SOLARFLOW_MIN_SOC -> MinSocStates
    [] entity = SOLARFLOW_OUTPUT_LIMIT -> OutputLimitStates
    [] entity = HOUSE_POWER -> HousePowerStates

Entities == {SOLARFLOW_BATTERY_SOC, SOLARFLOW_MIN_SOC, SOLARFLOW_OUTPUT_LIMIT,
             HOUSE_POWER}

\* SolarFlowControl.get_value: 0. when the state is None or "unavailable"
get_value(entity) ==
  IF entity \in DOMAIN ha_state THEN ha_state[entity] ELSE 0

AlwaysZero_compute == Some(0)

MinimizeGrid_computeNoThreshold ==
  IF get_value(HOUSE_POWER) < 0 /\ get_value(SOLARFLOW_OUTPUT_LIMIT) > 0
  THEN Some(get_value(SOLARFLOW_OUTPUT_LIMIT) + get_value(HOUSE_POWER))
  ELSE IF get_value(HOUSE_POWER) >= Float(MinimizeGrid_CONSUMPTION_THRESHOLD)
       THEN Some(get_value(SOLARFLOW_OUTPUT_LIMIT) + get_value(HOUSE_POWER))
       ELSE None
MinimizeGrid_compute ==
  IF get_value(HOUSE_POWER) < 0 /\ get_value(SOLARFLOW_OUTPUT_LIMIT) > 0
  THEN Some(get_value(SOLARFLOW_OUTPUT_LIMIT) + get_value(HOUSE_POWER))
  ELSE IF get_value(HOUSE_POWER) > Float(MinimizeGrid_CONSUMPTION_THRESHOLD)
       THEN Some(get_value(SOLARFLOW_OUTPUT_LIMIT) + get_value(HOUSE_POWER))
       ELSE None

NightUsage_computeClosedWindow ==
  IF now >= args.morning_cutoff_time /\ now <= args.evening_rampup_time
  THEN IF get_value(SOLARFLOW_OUTPUT_LIMIT) # 0 THEN Some(0) ELSE None
  ELSE LET house_power == get_value(HOUSE_POWER)
       IN IF house_power < 0
             \/ house_power > Float(NightUsage_CONSUMPTION_THRESHOLD)
          THEN Some(get_value(SOLARFLOW_OUTPUT_LIMIT) + house_power)
          ELSE None
NightUsage_compute ==
  IF now >= args.morning_cutoff_time /\ now < args.evening_rampup_time
  THEN IF get_value(SOLARFLOW_OUTPUT_LIMIT) # 0 THEN Some(0) ELSE None
  ELSE LET house_power == get_value(HOUSE_POWER)
       IN IF house_power < 0
             \/ house_power > Float(NightUsage_CONSUMPTION_THRESHOLD)
          THEN Some(get_value(SOLARFLOW_OUTPUT_LIMIT) + house_power)
          ELSE None

\* self.controller.compute(), dispatched on the class resolved by initialize
compute ==
  CASE controller = Some("AlwaysZero") -> AlwaysZero_compute
    [] controller = Some("MinimizeGrid") -> MinimizeGrid_compute
    [] controller = Some("NightUsage") -> NightUsage_compute

\* "Batteries depleted": the comparison of control_loop, on int() of both values
DepletedExact ==
  get_value(SOLARFLOW_BATTERY_SOC) <= get_value(SOLARFLOW_MIN_SOC)
DepletedNever == FALSE
Depleted ==
  ToInt(get_value(SOLARFLOW_BATTERY_SOC)) <= ToInt(get_value(SOLARFLOW_MIN_SOC))

\* next_value of control_loop before clamping
NextValueNoOverride == compute
NextValue ==
  IF Depleted
  THEN IF get_value(SOLARFLOW_OUTPUT_LIMIT) > 0 THEN Some(0) ELSE None
  ELSE compute

\* min(self.max_output, v) then max(0, .)
ClampNoUpper(v) == Max(0, v)
Clamp(v) == Max(0, Min(max_output, v))

\* "if next_value is not None": clamp and call_service('set_value') once
WritesAlways(next_value) ==
  <<Clamp(IF next_value # None THEN next_value[1] ELSE 0)>>
Writes(next_value) ==
  IF next_value # None THEN <<Clamp(next_value[1])>> ELSE <<>>

NoCtlOp == [op |-> "none", next_value |-> None, consulted |-> FALSE,
            input |-> None]

\* getattr(sys.modules[__name__], controller_class_name, None) gives a class
\* that controller_class(self) can instantiate
ResolvesAnything(controller_class_name) == TRUE
Resolves(controller_class_name) == controller_class_name \in ControllerClasses

\* "if self.controller_switch.get_state() == 'off'" of control_loop
DisabledNever == FALSE
Disabled == controller_switch = Some("off")

\* SolarFlowControl.initialize
ControlInitialize ==
  /\ ctl_status = "created"
  /\ max_output' = IF args.max_output # None
                   THEN Float(args.max_output[1])
                   ELSE Float(DEFAULT_MAX_OUTPUT)
  /\ IF Resolves(args.controller_class)
     THEN /\ controller' = Some(args.controller_class)
          /\ controller_switch' = Some("on")
          /\ loop_handle' = TRUE
          /\ ctl_status' = "running"
     ELSE \* ImportError (TypeError): initialize stops before anything else
          \* is set up
          /\ ctl_status' = "failed"
          /\ UNCHANGED <<controller, controller_switch, loop_handle>>
  /\ set_value_calls' = <<>>
  /\ ctl_last' = [NoCtlOp EXCEPT !.op = "initialize"]
  /\ UNCHANGED <<args, ha_state, now>>
  /\ UNCHANGED bridgeVars

\* SolarFlowControl.call_service_callback for a call_service event
CallService(entity_id, service) ==
  /\ ctl_status = "running"
  /\ controller_switch' =
       IF entity_id = CONTROLLER_SWITCH_NAME
       THEN IF service = "turn_off" THEN Some("off")
            ELSE IF service = "turn_on" THEN Some("on")
            ELSE controller_switch
       ELSE controller_switch
  /\ set_value_calls' = <<>>
  /\ ctl_last' = [NoCtlOp EXCEPT !.op = "call_service",
                                 !.input = Some(<<entity_id, service>>)]
  /\ UNCHANGED <<args, ctl_status, max_output, controller, loop_handle, ha_state, now>>
  /\ UNCHANGED bridgeVars

\* SolarFlowControl.control_loop, fired by the run_every timer
ControlLoop ==
  /\ ctl_status = "running"
  /\ loop_handle
  /\ IF Disabled
     THEN /\ set_value_calls' = <<>>
          /\ ctl_last' = [NoCtlOp EXCEPT !.op = "control_loop"]
     ELSE LET next_value == NextValue
          IN /\ set_value_calls' = Writes(next_value)
             /\ ctl_last' = [NoCtlOp EXCEPT !.op = "control_loop",
                                            !.next_value = next_value,
                                            !.consulted = ~Depleted]
  /\ UNCHANGED <<args, ctl_status, max_output, controller, controller_switch,
                 loop_handle, ha_state, now>>
  /\ UNCHANGED bridgeVars

\* SolarFlowControl.terminate: cancel_timer(loop_handle) and
\* cancel_listen_event(service_callback_handle)
ControlTerminate ==
  /\ ctl_status = "running"
  /\ ctl_status' = "terminated"
  /\ loop_handle' = FALSE
  /\ set_value_calls' = <<>>
  /\ ctl_last' = [NoCtlOp EXCEPT !.op = "terminate"]
  /\ UNCHANGED <<args, max_output, controller, controller_switch, ha_state, now>>
  /\ UNCHANGED bridgeVars

\* HomeAssistant changes the state of an entity the controller reads
HassStateChanged(entity) ==
  /\ \/ \E v \in EntityStates(entity) :
          ha_state' = [e \in DOMAIN ha_state \cup {entity} |->
                         IF e = entity THEN v ELSE ha_state[e]]
     \/ ha_state' = [e \in DOMAIN ha_state \ {entity} |-> ha_state[e]]
  /\ ha_state' # ha_state
  /\ set_value_calls' = <<>>
  /\ ctl_last' = NoCtlOp
  /\ UNCHANGED <<args, ctl_status, max_output, controller, controller_switch,
                 loop_handle, now>>
  /\ UNCHANGED bridgeVars

\* the wall clock read by NightUsage.compute
ClockAdvances ==
  /\ \E t \in Times \ {now} : now' = t
  /\ set_value_calls' = <<>>
  /\ ctl_last' = NoCtlOp
  /\ UNCHANGED <<args, ctl_status, max_output, controller, controller_switch,
                 loop_handle, ha_state>>
  /\ UNCHANGED bridgeVars

InitControlVars ==
  /\ args \in ArgsSet
  /\ ctl_status = "created"
  /\ max_output = 0
  /\ controller = None
  /\ controller_switch = None
  /\ loop_handle = FALSE
  /\ ha_state = << >>
  /\ now \in Times
  /\ set_value_calls = <<>>
  /\ ctl_last = NoCtlOp

\* the controller app is not loaded: the bridge runs on its own
ControlNotLoaded ==
  /\ args = [controller_class |-> "AlwaysZero", max_output |-> None,
             morning_cutoff_time |-> 6, evening_rampup_time |-> 18]
  /\ ctl_status = "created"
  /\ max_output = 0
  /\ controller = None
  /\ controller_switch = None
  /\ loop_handle = FALSE
  /\ ha_state = << >>
  /\ now = 12
  /\ set_value_calls = <<>>
  /\ ctl_last = NoCtlOp

(***************************************************************************)
(* solarflow.py                                                            *)
(***************************************************************************)
DISCOVERY_PREFIX == "homeassistant"

\* name -> code tables
PV_BRANDS == [other |-> 0, hoymiles |-> 1, enphase |-> 2, apsystems |-> 3,
              anker |-> 4, deye |-> 5, bosswerk |-> 15]
BYPASS_MODES == [automatic |-> 0, always_off |-> 1, always_on |-> 2]

\* serials of battery packs the device may report
PackSerials == {"PK1", "PK2"}
DeviceSerials == {"SN1"}
\* firmware reports: the device serial and the versions of its modules
FirmwareReports ==
  {[deviceSn |-> sn,
    modules |-> <<[module |-> "MASTER", version |-> 4100],
                  [module |-> "BMS", version |-> 4101]>>] : sn \in DeviceSerials}

\* f'pack_{serial}_soc', f'pack_{serial}_state', f'pack_{serial}_temperature'
PackItems(serial) ==
  CASE serial = "PK1" -> [soc |-> "pack_PK1_soc", state |-> "pack_PK1_state",
                          temperature |-> "pack_PK1_temperature"]
    [] serial = "PK2" -> [soc |-> "pack_PK2_soc", state |-> "pack_PK2_state",
                          temperature |-> "pack_PK2_temperature"]

\* the keys of new_topics, in the order of the dict literal
StaticItems ==
  <<"battery", "state", "bypass_mode", "home_output_power",
    "battery_output_power", "solar_input_power", "solar_input_1_power",
    "solar_input_2_power", "solar_overflow_power", "battery_input_power",
    "battery_charge_time", "battery_runtime", "min_soc", "max_soc",
    "max_inverter_input", "output_limit", "buzzer_switch", "pv_brand">>

SeqRange(q) == {q[i] : i \in DOMAIN q}

AllPackItems ==
  UNION {{PackItems(s).soc, PackItems(s).state, PackItems(s).temperature} :
         s \in PackSerials}
AllItems == SeqRange(StaticItems) \cup AllPackItems

\* items whose descriptor carries 'command_callback' and 'command_topic'
CommandItems == {"bypass_mode", "min_soc", "max_soc", "max_inverter_input",
                 "output_limit", "buzzer_switch", "pv_brand"}
\* items whose descriptor carries 'start_value': 0
StartValueItems == {"home_output_power", "battery_output_power",
                    "solar_input_power", "solar_input_1_power",
                    "solar_input_2_power", "solar_overflow_power",
                    "battery_input_power", "battery_charge_time"}

\* SolarFlow.topic_name_for
topic_name_for(suffix, command) ==
  IF command THEN <<"iot", "prefix/device_id", suffix>>
  ELSE <<"", "prefix/device_id", suffix>>

\* keys of self.topic_callbacks
StaticTopics == {topic_name_for("firmware/report", FALSE),
                 topic_name_for("time-sync", FALSE),
                 topic_name_for("properties/report", FALSE),
                 topic_name_for("log", FALSE)}

StateTopicOf(item) == <<"solarflow", item, "state">>
CommandTopicOf(item) == <<"solarflow", item, "set">>

\* 'max' of a number descriptor
DescriptorMax(item) ==
  CASE item = "min_soc" -> Some(30)
    [] item = "max_soc" -> Some(100)
    [] item = "max_inverter_input" -> Some(1200)
    [] item = "output_limit" -> Some(cache["max_inverter_input"])
    [] OTHER -> None

\* one entry of new_topics, as try_send_discovery builds it
Descriptor(item) ==
  [config_topic |-> <<DISCOVERY_PREFIX, device_serial[1], item, "config">>,
   command_callback |-> IF item \in CommandItems THEN Some(item) ELSE None,
   start_value |-> IF item \in StartValueItems THEN Some(0) ELSE None,
   config |-> [state_topic |-> StateTopicOf(item),
               command_topic |-> IF item \in CommandItems
                                 THEN Some(CommandTopicOf(item)) ELSE None,
               max |-> DescriptorMax(item)]]

\* the items of new_topics in insertion order: static ones, then three per pack
RECURSIVE PackItemSeq(_)
PackItemSeq(packs) ==
  IF packs = <<>> THEN <<>>
  ELSE LET p == PackItems(Head(packs))
       IN <<p.soc, p.state, p.temperature>> \o PackItemSeq(Tail(packs))

NewTopicItems == StaticItems \o PackItemSeq(battery_packs)

\* outbound messages
ReadAllMsg == [kind |-> "properties/read",
               topic |-> topic_name_for("properties/read", TRUE),
               payload |-> [properties |-> <<"getAll">>]]
WriteMsg(properties) == [kind |-> "properties/write",
                         topic |-> topic_name_for("properties/write", TRUE),
                         payload |-> [properties |-> properties]]
ConfigMsg(item, info) == [kind |-> "config", topic |-> info.config_topic,
                          item |-> item, payload |-> info.config]
StateMsg(topic, state) == [kind |-> "state", topic |-> topic, payload |-> state]

\* SolarFlow.state_topic
state_topic_any(item) == Some(StateTopicOf(item))
state_topic(item) ==
  IF item \notin DOMAIN topics THEN None
  ELSE Some(topics[item].config.state_topic)

\* f with key k bound to v (dict item assignment)
Put(f, k, v) == [x \in DOMAIN f \cup {k} |-> IF x = k THEN v ELSE f[x]]

\* bound on the timers outstanding at any time
MaxTimers == 2

\* the loop of try_send_discovery over new_topics.items(): st carries the
\* bridge fields it changes, items is what is left to visit
PublishAlways(st, item) == TRUE
ShouldPublish(st, item) == item \notin DOMAIN st.topics

RECURSIVE PublishNewTopics(_, _)
PublishNewTopics(st, items) ==
  IF items = <<>> THEN st
  ELSE LET item == Head(items)
           info == Descriptor(item)
           Visit(s) == IF ShouldPublish(s, item)
                       THEN [s EXCEPT
                               !.sent = @ \o <<ConfigMsg(item, info)>>
                                          \o (IF info.start_value # None
                                              THEN <<StateMsg(info.config.state_topic,
                                                              info.start_value[1])>>
                                              ELSE <<>>),
                               !.count = [@ EXCEPT ![item] = @ + 1],
                               !.topics = Put(@, item, info)]
                       ELSE s
           \* the state after this item, computed once from the value of st
           st1 == CHOOSE after \in {Visit(s) : s \in {st}} : TRUE
       IN PublishNewTopics(st1, Tail(items))

\* new_command_topics of try_send_discovery: read from self.topics as it is
\* when the list is built, before the loop over new_topics adds to it
NewCommandTopics ==
  {topics[item].config.command_topic[1] :
     item \in {i \in DOMAIN topics : topics[i].config.command_topic # None}}

\* the preconditions of try_send_discovery
DiscoveryReady ==
  device_serial # None /\ "max_inverter_input" \in DOMAIN cache

\* a precondition is unmet: request_all(), run_in(try_send_discovery, 10), return
NotReadyNoRetry(first) ==
  [sent |-> first \o <<ReadAllMsg>>, run_in |-> <<>>]
NotReady(first) ==
  [sent |-> first \o <<ReadAllMsg>>, run_in |-> <<"try_send_discovery">>]

LastOp(op, result, error, run_in, input) ==
  [op |-> op, result |-> result, error |-> error, run_in |-> run_in,
   input |-> input]

\* SolarFlow.try_send_discovery, run by a run_in timer
TrySendDiscovery ==
  /\ bridge_status = "running"
  /\ discovery_timers > 0
  /\ DiscoveryReady => periodic_timers < MaxTimers
  /\ IF device_serial = None
     THEN LET out == NotReady(<<>>)
          IN /\ sent' = out.sent
             /\ discovery_timers' = discovery_timers - 1 + Len(out.run_in)
             /\ last' = LastOp("try_send_discovery", "no_serial", None,
                               out.run_in, None)
             /\ UNCHANGED <<topics, command_topics, subscribed, periodic_timers,
                            config_published>>
     ELSE LET first == IF battery_packs = <<>> THEN <<ReadAllMsg>> ELSE <<>>
          IN IF "max_inverter_input" \notin DOMAIN cache
             THEN LET out == NotReady(first)
                  IN /\ sent' = out.sent
                     /\ discovery_timers' = discovery_timers - 1 + Len(out.run_in)
                     /\ last' = LastOp("try_send_discovery",
                                       "no_max_inverter_input", None,
                                       out.run_in, None)
                     /\ UNCHANGED <<topics, command_topics, subscribed,
                                    periodic_timers, config_published>>
             ELSE LET new == NewCommandTopics \ command_topics
                      st == PublishNewTopics(
                              [sent |-> first, count |-> config_published,
                               topics |-> topics], NewTopicItems)
                  IN /\ subscribed' = subscribed \cup new
                     /\ command_topics' = command_topics \cup new
                     /\ topics' = st.topics
                     /\ config_published' = st.count
                     \* periodic_request_all(): request_all, then run_in
                     /\ sent' = st.sent \o <<ReadAllMsg>>
                     /\ periodic_timers' = periodic_timers + 1
                     /\ discovery_timers' = discovery_timers - 1
                     /\ last' = LastOp("try_send_discovery", "sent", None,
                                       <<"periodic_request_all">>, None)
  /\ UNCHANGED <<bridge_status, device_serial, module_versions, battery_packs,
                 cache>>
  /\ UNCHANGED ctlVars

\* SolarFlow.periodic_request_all, run by its own run_in timer
PeriodicRequestAll ==
  /\ bridge_status = "running"
  /\ periodic_timers > 0
  /\ sent' = <<ReadAllMsg>>
  /\ last' = LastOp("periodic_request_all", "sent", None,
                    <<"periodic_request_all">>, None)
  /\ UNCHANGED <<bridge_status, device_serial, module_versions, battery_packs,
                 topics, command_topics, cache, subscribed, discovery_timers,
                 periodic_timers, config_published>>
  /\ UNCHANGED ctlVars

\* "for module in data['modules']: self.module_versions[...] = module['version']"
RECURSIVE SetModuleVersions(_, _)
SetModuleVersions(versions, modules) ==
  IF modules = <<>> THEN versions
  ELSE SetModuleVersions(Put(versions, Head(modules).module, Head(modules).version),
                         Tail(modules))

\* SolarFlow.firmware_report_received; indexing a key the report lacks raises
\* KeyError where the handler stands, with what it had assigned before kept
firmware_report_received(data) ==
  LET s0 == [device_serial |-> device_serial,
             module_versions |-> module_versions, error |-> None]
      s1 == IF s0.device_serial # None THEN s0
            ELSE IF "deviceSn" \notin DOMAIN data
                 THEN [s0 EXCEPT !.error = Some(<<"KeyError", "deviceSn">>)]
                 ELSE [s0 EXCEPT !.device_serial = Some(data["deviceSn"])]
      s2 == IF s1.error # None THEN s1
            ELSE IF "modules" \notin DOMAIN data
                 THEN [s1 EXCEPT !.error = Some(<<"KeyError", "modules">>)]
                 ELSE [s1 EXCEPT !.module_versions =
                                    SetModuleVersions(@, data["modules"])]
  IN s2

\* SolarFlow.log_received
log_received(data) ==
  LET s0 == [device_serial |-> device_serial,
             module_versions |-> module_versions, error |-> None]
  IN IF "log" \notin DOMAIN data THEN s0
     ELSE IF device_serial = None /\ "sn" \in DOMAIN data["log"]
          THEN [s0 EXCEPT !.device_serial = Some(data["log"]["sn"])]
          ELSE s0

\* message_received on the firmware/report topic: firmware_report_received
FirmwareReport(data) ==
  /\ bridge_status = "running"
  /\ LET st == firmware_report_received(data)
     IN /\ device_serial' = st.device_serial
        /\ module_versions' = st.module_versions
        /\ last' = LastOp("firmware/report",
                          IF st.error = None THEN "ok" ELSE "raised",
                          st.error, <<>>, None)
  /\ sent' = <<>>
  /\ UNCHANGED <<bridge_status, battery_packs, topics, command_topics, cache,
                 subscribed, discovery_timers, periodic_timers, config_published>>
  /\ UNCHANGED ctlVars

\* message_received on the log topic: log_received, data['log'] with 'sn'
LogMessage(sn) ==
  /\ bridge_status = "running"
  /\ LET st == log_received([log |-> [sn |-> sn]])
     IN device_serial' = st.device_serial
  /\ sent' = <<>>
  /\ last' = LastOp("log", "ok", None, <<>>, None)
  /\ UNCHANGED <<bridge_status, module_versions, battery_packs, topics,
                 command_topics, cache, subscribed, discovery_timers,
                 periodic_timers, config_published>>
  /\ UNCHANGED ctlVars

\* the bridge after SolarFlow.initialize, which ends in a first
\* try_send_discovery that finds no device serial
InitBridgeVars ==
  /\ bridge_status = "running"
  /\ device_serial = None
  /\ module_versions = << >>
  /\ battery_packs = <<>>
  /\ topics = << >>
  /\ command_topics = {}
  /\ cache = << >>
  /\ subscribed = StaticTopics
  /\ discovery_timers = 1
  /\ periodic_timers = 0
  /\ config_published = [item \in AllItems |-> 0]
  /\ sent = <<ReadAllMsg>>
  /\ last = [op |-> "initialize", result |-> "no_serial", error |-> None,
             run_in |-> <<"try_send_discovery">>, input |-> None]

\* SolarFlow.publish_state on the handler's running state st
publish_state(st, item, state) ==
  LET st1 == [st EXCEPT !.cache = Put(@, item, state)]
      topic == state_topic(item)
  IN IF topic = None THEN st1
     ELSE [st1 EXCEPT !.sent = Append(@, StateMsg(topic[1], state))]

\* "if key in properties: self.publish_state(item, properties[key])"; nothing
\* runs once an exception has left the handler
PublishKey(st, properties, key, item) ==
  IF st.error = None /\ key \in DOMAIN properties
  THEN publish_state(st, item, properties[key])
  ELSE st

\* list(T.keys())[list(T.values()).index(code)]: None stands for the ValueError
OptionOf(table, code) ==
  LET names == {n \in DOMAIN table : table[n] = code}
  IN IF names = {} THEN None ELSE Some(CHOOSE n \in names : TRUE)

\* Python's x / 10 on an int: the exact decimal, whole part and tenths
FloorDivideBy10(raw) == [whole |-> raw \div 10, tenths |-> 0]
DivideBy10(raw) == [whole |-> raw \div 10, tenths |-> raw % 10]

\* enum-class keys: passMode -> bypass_mode, pvBrand -> pv_brand
PublishOption(st, properties, key, item, table) ==
  IF st.error = None /\ key \in DOMAIN properties
  THEN LET option == OptionOf(table, properties[key])
       IN IF option = None
          THEN [st EXCEPT !.error = Some(<<"ValueError", key>>)]
          ELSE publish_state(st, item, option[1])
  ELSE st

\* percentage-class keys: minSoc -> min_soc, socSet -> max_soc
PublishPercent(st, properties, key, item) ==
  IF st.error = None /\ key \in DOMAIN properties
  THEN publish_state(st, item, DivideBy10(properties[key]))
  ELSE st

\* max(solar_input_power - battery_output_power, 0) of the cache
OverflowSigned(c) == c["solar_input_power"] - c["battery_output_power"]
Overflow(c) == Max(c["solar_input_power"] - c["battery_output_power"], 0)

\* the solar overflow derivation
PublishOverflow(st, calc_solar_overflow) ==
  IF /\ st.error = None
     /\ calc_solar_overflow
     /\ "solar_input_power" \in DOMAIN st.cache
     /\ "battery_input_power" \in DOMAIN st.cache
  THEN IF "battery_output_power" \notin DOMAIN st.cache
       THEN [st EXCEPT !.error = Some(<<"KeyError", "battery_output_power">>)]
       ELSE publish_state(st, "solar_overflow_power", Overflow(st.cache))
  ELSE st

\* the aggregate state: a missing input counts as 0
CachedOr0(c, item) == IF item \in DOMAIN c THEN c[item] ELSE 0
AggregateStateChargeFirst(c) ==
  LET discharge_power == CachedOr0(c, "battery_input_power")
      charge_power == CachedOr0(c, "battery_output_power")
      solar_power == CachedOr0(c, "solar_input_power")
  IN IF charge_power > 0 THEN "charging"
     ELSE IF discharge_power > 0 THEN "discharging"
     ELSE IF solar_power > 0 THEN "solar_passthrough"
     ELSE "idle"
AggregateState(c) ==
  LET discharge_power == CachedOr0(c, "battery_input_power")
      charge_power == CachedOr0(c, "battery_output_power")
      solar_power == CachedOr0(c, "solar_input_power")
  IN IF discharge_power > 0 THEN "discharging"
     ELSE IF charge_power > 0 THEN "charging"
     ELSE IF solar_power > 0 THEN "solar_passthrough"
     ELSE "idle"

PublishAggregateState(st, calc_state) ==
  IF st.error = None /\ calc_state
  THEN publish_state(st, "state", AggregateState(st.cache))
  ELSE st

PublishBuzzer(st, properties) ==
  IF st.error = None /\ "buzzerSwitch" \in DOMAIN properties
  THEN publish_state(st, "buzzer_switch",
                     IF properties["buzzerSwitch"] = 1 THEN "ON" ELSE "OFF")
  ELSE st

\* [pack['sn'] for pack in pack_data]
RosterFrom(pack_data) == [i \in DOMAIN pack_data |-> pack_data[i]["sn"]]

\* the pack enumeration: 'packNum' in properties and 'packData' in data
SetRosterNoRerun(st, data) ==
  IF /\ st.error = None
     /\ "packNum" \in DOMAIN data.properties[1]
     /\ data.packData # None
  THEN [st EXCEPT !.battery_packs = RosterFrom(data.packData[1])]
  ELSE st
SetRoster(st, data) ==
  IF /\ st.error = None
     /\ "packNum" \in DOMAIN data.properties[1]
     /\ data.packData # None
  THEN [st EXCEPT !.battery_packs = RosterFrom(data.packData[1]),
                  !.run_in = Append(@, "try_send_discovery")]
  ELSE st

PackStateName(pack_state) ==
  CASE pack_state = 0 -> "standby"
    [] pack_state = 1 -> "charging"
    [] pack_state = 2 -> "discharging"
    [] OTHER -> "unknown"

\* which packs of packData are applied
AnyPack(st, pack_serial) == TRUE
KnownPack(st, pack_serial) == pack_serial \in SeqRange(st.battery_packs)

\* the body of "for pack in pack_data", for one pack
ApplyPack(st, pack) ==
  IF KnownPack(st, pack["sn"])
  THEN LET names == PackItems(pack["sn"])
           a == IF "socLevel" \in DOMAIN pack
                THEN publish_state(st, names.soc, pack["socLevel"]) ELSE st
           b == IF "state" \in DOMAIN pack
                THEN publish_state(a, names.state, PackStateName(pack["state"]))
                ELSE a
           c == IF "maxTemp" \in DOMAIN pack
                THEN publish_state(b, names.temperature,
                                   DivideBy10(pack["maxTemp"]))
                ELSE b
       IN c
  ELSE st

RECURSIVE ApplyPacks(_, _)
ApplyPacks(st, pack_data) ==
  IF pack_data = <<>> THEN st
  ELSE ApplyPacks(ApplyPack(st, Head(pack_data)), Tail(pack_data))

ApplyPackData(st, data) ==
  IF st.error = None /\ data.packData # None
  THEN ApplyPacks(st, data.packData[1])
  ELSE st

\* SolarFlow.properties_report_received, the statements in source order; the
\* result carries the fields it changes and the exception that ended it, if any
properties_report_received(data) ==
  LET properties == data.properties[1]
      calc_solar_overflow == \/ "solarInputPower" \in DOMAIN properties
                             \/ "packInputPower" \in DOMAIN properties
      calc_state == \/ "outputPackPower" \in DOMAIN properties
                    \/ "solarInputPower" \in DOMAIN properties
                    \/ "packInputPower" \in DOMAIN properties
      s0 == [cache |-> cache, sent |-> <<>>, battery_packs |-> battery_packs,
             run_in |-> <<>>, error |-> None]
      s1 == PublishKey(s0, properties, "electricLevel", "battery")
      s2 == PublishKey(s1, properties, "outputHomePower", "home_output_power")
      s3 == PublishKey(s2, properties, "outputPackPower", "battery_output_power")
      s4 == PublishKey(s3, properties, "solarInputPower", "solar_input_power")
      s5 == PublishKey(s4, properties, "pvPower1", "solar_input_1_power")
      s6 == PublishKey(s5, properties, "solarPower1", "solar_input_1_power")
      s7 == PublishKey(s6, properties, "pvPower2", "solar_input_2_power")
      s8 == PublishKey(s7, properties, "solarPower2", "solar_input_2_power")
      s9 == PublishKey(s8, properties, "packInputPower", "battery_input_power")
      s10 == PublishOption(s9, properties, "passMode", "bypass_mode", BYPASS_MODES)
      s11 == PublishOverflow(s10, calc_solar_overflow)
      s12 == PublishAggregateState(s11, calc_state)
      s13 == PublishKey(s12, properties, "outputLimit", "output_limit")
      s14 == PublishKey(s13, properties, "inverseMaxPower", "max_inverter_input")
      s15 == PublishPercent(s14, properties, "minSoc", "min_soc")
      s16 == PublishPercent(s15, properties, "socSet", "max_soc")
      s17 == PublishKey(s16, properties, "remainOutTime", "battery_runtime")
      s18 == PublishKey(s17, properties, "remainInputTime", "battery_charge_time")
      s19 == PublishOption(s18, properties, "pvBrand", "pv_brand", PV_BRANDS)
      s20 == PublishBuzzer(s19, properties)
      s21 == SetRoster(s20, data)
      s22 == ApplyPackData(s21, data)
  IN s22

\* message_received on the properties/report topic
PropertiesReport(data) ==
  /\ bridge_status = "running"
  /\ IF data.properties = None
     THEN /\ sent' = <<>>
          /\ last' = LastOp("properties/report", "ignored", None, <<>>,
                            Some(data))
          /\ UNCHANGED <<cache, battery_packs, discovery_timers>>
     ELSE LET st == properties_report_received(data)
          IN /\ discovery_timers + Len(st.run_in) <= MaxTimers
             /\ cache' = st.cache
             /\ battery_packs' = st.battery_packs
             /\ discovery_timers' = discovery_timers + Len(st.run_in)
             /\ sent' = st.sent
             /\ last' = LastOp("properties/report",
                               IF st.error = None THEN "ok" ELSE "raised",
                               st.error, st.run_in, Some(data))
  /\ UNCHANGED <<bridge_status, device_serial, module_versions, topics,
                 command_topics, subscribed, periodic_timers, config_published>>
  /\ UNCHANGED ctlVars

\* a report: data['properties'] (or none) and data['packData'] (or none)
Report(properties, packData) == [properties |-> properties, packData |-> packData]
\* dict literals of one and two keys
D1(k, v) == [x \in {k} |-> v]
D2(k1, v1, k2, v2) == [x \in {k1, k2} |-> IF x = k1 THEN v1 ELSE v2]

\* packData arrays: 'sn' alone, or with one per-pack field
PackRecords ==
  UNION {{D1("sn", sn), D2("sn", sn, "socLevel", 50)} : sn \in PackSerials}
PackDatas ==
  {<<pack>> : pack \in PackRecords}
    \cup {<<D1("sn", "PK1"), D1("sn", "PK2")>>,
          <<D2("sn", "PK1", "socLevel", 50), D2("sn", "PK2", "socLevel", 50)>>}

\* the reports that decide discovery: max inverter input, pack enumeration,
\* per-pack updates
DiscoveryReports ==
  {Report(Some(D1("inverseMaxPower", v)), None) : v \in {600}}
    \cup {Report(Some(D1("packNum", Len(pd))), Some(pd)) : pd \in PackDatas}
    \cup {Report(Some(D1("packNum", 1)), None)}
    \cup {Report(Some(<< >>), Some(pd)) : pd \in PackDatas}
    \cup {Report(None, None)}

Init == InitBridgeVars /\ ControlNotLoaded

Next ==
  \/ TrySendDiscovery
  \/ PeriodicRequestAll
  \/ \E data \in FirmwareReports : FirmwareReport(data)
  \/ \E sn \in DeviceSerials : LogMessage(sn)
  \/ \E data \in DiscoveryReports : PropertiesReport(data)

Spec == Init /\ [][Next]_vars

(***************************************************************************)
(* Discovery                                                               *)
(***************************************************************************)
DiscoveryRan == last.op = "try_send_discovery"
DiscoverySent == DiscoveryRan /\ last.result = "sent"
ConfigsSent == {i \in DOMAIN sent : sent[i].kind = "config"}
ReadAllSent == \E i \in DOMAIN sent : sent[i] = ReadAllMsg

\* C3: discovery idempotency. No item's discovery descriptor is ever
\* published more than once, and after a try_send_discovery run that publishes,
\* every item of the descriptor set has been published exactly once, however
\* many runs there were before.
C3_DiscoveryIdempotent ==
  /\ \A item \in AllItems : config_published[item] <= 1
  /\ DiscoverySent =>
       \A item \in SeqRange(NewTopicItems) : config_published[item] = 1

\* a second successful run found every item registered and published none
C3_Witness ==
  /\ DiscoverySent
  /\ ConfigsSent = {}
  /\ \A item \in SeqRange(NewTopicItems) : config_published[item] = 1

\* C4: after a try_send_discovery run that publishes descriptors, every
\* registered item with a command topic has that topic subscribed and recorded
\* in command_topics, the list message_received routes commands by.
C4_CommandTopicsRegistered ==
  DiscoverySent =>
    \A item \in DOMAIN topics :
      topics[item].config.command_topic # None =>
        /\ topics[item].config.command_topic[1] \in subscribed
        /\ topics[item].config.command_topic[1] \in command_topics

\* C5 as stated: a run with the serial unknown, the roster empty or
\* max_inverter_input not cached publishes no descriptor, issues a read-all
\* request and schedules a retry of itself.
C5_AnyPreconditionUnmet ==
  (DiscoveryRan /\ (device_serial = None \/ battery_packs = <<>>
                    \/ "max_inverter_input" \notin DOMAIN cache)) =>
    /\ ConfigsSent = {}
    /\ ReadAllSent
    /\ last.run_in = <<"try_send_discovery">>

\* C5, amended: a run with the device serial unknown or max_inverter_input not
\* cached publishes no descriptor, issues a read-all request and schedules one
\* retry of itself; a run in which only the roster is empty issues a read-all
\* request too, but goes on to publish the descriptors and schedules no retry.
C5_NotReadyRetries ==
  /\ (DiscoveryRan /\ ~DiscoveryReady) =>
       /\ ConfigsSent = {}
       /\ ReadAllSent
       /\ last.run_in = <<"try_send_discovery">>
       /\ discovery_timers >= 1
  /\ (DiscoveryRan /\ DiscoveryReady /\ battery_packs = <<>>) =>
       /\ sent[1] = ReadAllMsg
       /\ last.result = "sent"
       /\ "try_send_discovery" \notin SeqRange(last.run_in)

\* a run that found the serial but not max_inverter_input, and retried
C5_Witness ==
  /\ DiscoveryRan
  /\ device_serial # None
  /\ "max_inverter_input" \notin DOMAIN cache
  /\ ConfigsSent = {}
  /\ last.run_in = <<"try_send_discovery">>

\* C18: the recurring full refresh is scheduled idempotently: however many
\* try_send_discovery runs succeeded, at most one periodic_request_all timer is
\* outstanding.
C18_SinglePeriodicTimer == periodic_timers <= 1

(***************************************************************************)
(* Roster                                                                  *)
(***************************************************************************)
Enumerates(data) ==
  /\ data.properties # None
  /\ "packNum" \in DOMAIN data.properties[1]
  /\ data.packData # None

PackItemSet(sn) ==
  {PackItems(sn).soc, PackItems(sn).state, PackItems(sn).temperature}

\* C6: roster integrity. The roster changes only in a properties report that
\* carries packNum together with packData, and becomes exactly the serials
\* listed; a report leaves the cache entries of every serial outside the roster
\* as they were and publishes no state for them.
C6_RosterIntegrity ==
  [][/\ battery_packs' # battery_packs =>
          /\ last'.op = "properties/report"
          /\ Enumerates(last'.input[1])
          /\ battery_packs' = [i \in DOMAIN last'.input[1].packData[1] |->
                                 last'.input[1].packData[1][i]["sn"]]
     /\ \A sn \in PackSerials \ SeqRange(battery_packs') :
          \A item \in PackItemSet(sn) :
            /\ (item \in DOMAIN cache') = (item \in DOMAIN cache)
            /\ item \in DOMAIN cache => cache'[item] = cache[item]
            /\ last'.op = "properties/report" =>
                 \A i \in DOMAIN sent' : sent'[i].topic # StateTopicOf(item)]_vars

\* a per-pack update naming a serial outside a non-empty roster was processed
\* and left no cache entry for it
C6_Witness ==
  /\ last.op = "properties/report"
  /\ last.input[1].packData # None
  /\ battery_packs # <<>>
  /\ \E i \in DOMAIN last.input[1].packData[1] :
       LET pack == last.input[1].packData[1][i]
       IN /\ pack["sn"] \notin SeqRange(battery_packs)
          /\ "socLevel" \in DOMAIN pack
          /\ PackItems(pack["sn"]).soc \notin DOMAIN cache

\* a report while the component runs unattended: a pack enumeration starts
\* one more discovery timer, and each discovery run that succeeds leaves one
\* more periodic timer behind, so enumerations are admitted while the timers
\* of both kinds stay within the bound
LiveReport(data) ==
  /\ Enumerates(data) => periodic_timers + discovery_timers < MaxTimers
  /\ PropertiesReport(data)

\* max inverter input, the enumerations of one pack and of both, a per-pack
\* update
LiveReports ==
  {Report(Some(D1("inverseMaxPower", 600)), None),
   Report(Some(D1("packNum", 1)), Some(<<D1("sn", "PK1")>>)),
   Report(Some(D1("packNum", 1)), Some(<<D1("sn", "PK2")>>)),
   Report(Some(D1("packNum", 2)), Some(<<D1("sn", "PK1"), D1("sn", "PK2")>>)),
   Report(Some(<< >>), Some(<<D2("sn", "PK1", "socLevel", 50)>>))}

NextLive ==
  \/ TrySendDiscovery
  \/ PeriodicRequestAll
  \/ \E data \in FirmwareReports : FirmwareReport(data)
  \/ \E sn \in DeviceSerials : LogMessage(sn)
  \/ \E data \in LiveReports : LiveReport(data)

\* run_in(self.try_send_discovery, 10): a pending discovery timer fires
SpecLive == Init /\ [][NextLive]_vars /\ WF_vars(TrySendDiscovery)

StaticPublished == \A item \in SeqRange(StaticItems) : config_published[item] >= 1
PackPublished(sn) == \A item \in PackItemSet(sn) : config_published[item] >= 1
InRoster(sn) == sn \in SeqRange(battery_packs)

\* C25: discovery liveness. While the static items, or the items of a pack of
\* the roster, are not yet published, a discovery timer is pending; so, with
\* timers firing, once the device serial and max_inverter_input are known the
\* descriptor of every static item is eventually published, and the three
\* items of every serial an enumeration put in the roster are eventually
\* published too, unless a later enumeration has dropped the serial.
C25_DiscoveryLiveness ==
  /\ [](~StaticPublished => discovery_timers >= 1)
  /\ [](\A sn \in PackSerials :
          (InRoster(sn) /\ ~PackPublished(sn)) => discovery_timers >= 1)
  /\ DiscoveryReady ~> StaticPublished
  /\ \A sn \in PackSerials :
       (DiscoveryReady /\ InRoster(sn)) ~> (PackPublished(sn) \/ ~InRoster(sn))

\* an enumeration arrived after the static items were published, and the
\* discovery run it scheduled has published the three items of PK1
C25_Witness ==
  /\ DiscoverySent
  /\ StaticPublished
  /\ InRoster("PK1")
  /\ PackPublished("PK1")
  /\ \A i \in ConfigsSent : sent[i].item \in PackItemSet("PK1")
  /\ ConfigsSent # {}

(***************************************************************************)
(* The control loop                                                        *)
(***************************************************************************)
InitControl == InitControlVars /\ InitBridgeVars

NextControl ==
  \/ ControlInitialize
  \/ \E service \in {"turn_on", "turn_off", "toggle"} :
       CallService(CONTROLLER_SWITCH_NAME, service)
  \/ \E service \in {"turn_off"} : CallService("switch.other", service)
  \/ ControlLoop
  \/ ControlTerminate
  \/ \E entity \in Entities : HassStateChanged(entity)
  \/ ClockAdvances

SpecControl == InitControl /\ [][NextControl]_vars

\* a control_loop cycle has just run past the gate of the switch
CycleRan == ctl_last.op = "control_loop" /\ controller_switch # Some("off")
OverrideCondition ==
  /\ get_value(SOLARFLOW_BATTERY_SOC) <= get_value(SOLARFLOW_MIN_SOC)
  /\ get_value(SOLARFLOW_OUTPUT_LIMIT) > 0

\* C1: safety override. A control_loop cycle that runs with the switch on,
\* SOC <= minimum SOC and a current output limit > 0 makes one actuator write,
\* of the value 0, whatever the strategy and whatever it would have returned.
C1_SafetyOverride ==
  (CycleRan /\ OverrideCondition) => set_value_calls = <<0>>

\* the override took a cycle in which MinimizeGrid asked for a positive limit
C1_Witness ==
  /\ CycleRan /\ OverrideCondition
  /\ controller = Some("MinimizeGrid")
  /\ compute # None /\ compute[1] > 0
  /\ set_value_calls = <<0>>

\* C2: clamp law. Every value passed to set_value lies in [0, max_output],
\* whether the candidate came from the override or from a strategy.
C2_ClampLaw ==
  \A i \in DOMAIN set_value_calls :
    0 <= set_value_calls[i] /\ set_value_calls[i] <= max_output

\* a strategy asked for more than max_output and max_output was written
C2_Witness ==
  /\ CycleRan
  /\ ctl_last.consulted
  /\ ctl_last.next_value # None
  /\ ctl_last.next_value[1] > max_output
  /\ set_value_calls = <<max_output>>

\* a control_loop cycle has just consulted the strategy of the given class
StrategyRan(class) ==
  CycleRan /\ ctl_last.consulted /\ controller = Some(class)

\* C12: MinimizeGrid.compute, for grid power g and current limit l, returns
\* l + g if g < 0 and l > 0; otherwise l + g if g > 5; otherwise None. So
\* (g = -50, l = 200) gives 150, (g = 8, l = 100) gives 108 and g = 3 gives None.
C12_MinimizeGridLaw ==
  StrategyRan("MinimizeGrid") =>
    LET g == get_value(HOUSE_POWER)
        l == get_value(SOLARFLOW_OUTPUT_LIMIT)
        r == ctl_last.next_value
    IN /\ (g < 0 /\ l > 0) => r = Some(l + g)
       /\ (~(g < 0 /\ l > 0) /\ g > 50) => r = Some(l + g)
       /\ (~(g < 0 /\ l > 0) /\ g <= 50) => r = None
       /\ (g = -500 /\ l = 2000) => r = Some(1500)
       /\ (g = 80 /\ l = 1000) => r = Some(1080)
       /\ g = 30 => r = None

\* MinimizeGrid was consulted with g = 8 and l = 100 and returned 108
C12_Witness ==
  /\ StrategyRan("MinimizeGrid")
  /\ get_value(HOUSE_POWER) = 80
  /\ get_value(SOLARFLOW_OUTPUT_LIMIT) = 1000
  /\ ctl_last.next_value = Some(1080)

\* C13: NightUsage.compute, for time of day t, grid power g and current limit
\* l: with morning_cutoff <= t < evening_rampup it returns 0 when l # 0 and None
\* when l = 0; outside that window it returns l + g when g < 0 or g > 10, and
\* None otherwise.
C13_NightUsageLaw ==
  StrategyRan("NightUsage") =>
    LET g == get_value(HOUSE_POWER)
        l == get_value(SOLARFLOW_OUTPUT_LIMIT)
        r == ctl_last.next_value
        day == args.morning_cutoff_time <= now /\ now < args.evening_rampup_time
    IN /\ (day /\ l # 0) => r = Some(0)
       /\ (day /\ l = 0) => r = None
       /\ (~day /\ (g < 0 \/ g > 100)) => r = Some(l + g)
       /\ (~day /\ g >= 0 /\ g <= 100) => r = None

\* NightUsage was consulted at the evening boundary itself, which is night
C13_Witness ==
  /\ StrategyRan("NightUsage")
  /\ now = args.evening_rampup_time
  /\ get_value(HOUSE_POWER) = -500
  /\ get_value(SOLARFLOW_OUTPUT_LIMIT) = 2000
  /\ ctl_last.next_value = Some(1500)

\* C14: the manual gate. The switch is "on" after initialize, becomes "off" on
\* a turn_off call for switch.solarflow_control and "on" on a turn_on call, and
\* nothing else changes it; a control_loop cycle that fires while the switch is
\* off writes nothing and does not consult the strategy, whatever the inputs.
C14_ManualGate ==
  [][/\ (ctl_last'.op = "initialize" /\ ctl_status' = "running") =>
          controller_switch' = Some("on")
     /\ (ctl_last'.op = "call_service"
         /\ ctl_last'.input = Some(<<CONTROLLER_SWITCH_NAME, "turn_off">>)) =>
          controller_switch' = Some("off")
     /\ (ctl_last'.op = "call_service"
         /\ ctl_last'.input = Some(<<CONTROLLER_SWITCH_NAME, "turn_on">>)) =>
          controller_switch' = Some("on")
     /\ controller_switch' # controller_switch =>
          \/ ctl_last'.op = "initialize"
          \/ /\ ctl_last'.op = "call_service"
             /\ ctl_last'.input \in
                  {Some(<<CONTROLLER_SWITCH_NAME, "turn_off">>),
                   Some(<<CONTROLLER_SWITCH_NAME, "turn_on">>)}
     /\ (ctl_last'.op = "control_loop" /\ controller_switch = Some("off")) =>
          /\ set_value_calls' = <<>>
          /\ ~ctl_last'.consulted
          /\ ctl_last'.next_value = None]_vars

\* a cycle fired with the switch off while the safety override condition held,
\* and wrote nothing
C14_Witness ==
  /\ ctl_last.op = "control_loop"
  /\ controller_switch = Some("off")
  /\ OverrideCondition
  /\ set_value_calls = <<>>

C21_DelegatesUnlessOverride ==
  (CycleRan /\ ~OverrideCondition) =>
    /\ ctl_last.consulted
    /\ ctl_last.next_value = compute

\* C21, amended: a cycle with the switch on consults the strategy exactly when
\* int(SOC) > int(minimum SOC), and its candidate is then compute()'s result;
\* with int(SOC) <= int(minimum SOC) the strategy is not consulted and the
\* candidate is 0 when the current limit is > 0 and none when it is not.
C21_DelegatesUnlessDepleted ==
  CycleRan =>
    LET soc == get_value(SOLARFLOW_BATTERY_SOC)
        min_soc == get_value(SOLARFLOW_MIN_SOC)
        whole(x) == IF x >= 0 THEN x \div 10 ELSE 0 - ((0 - x) \div 10)
    IN /\ whole(soc) > whole(min_soc) =>
            /\ ctl_last.consulted
            /\ ctl_last.next_value = compute
       /\ whole(soc) <= whole(min_soc) =>
            /\ ~ctl_last.consulted
            /\ get_value(SOLARFLOW_OUTPUT_LIMIT) > 0 =>
                 ctl_last.next_value = Some(0)
            /\ get_value(SOLARFLOW_OUTPUT_LIMIT) <= 0 =>
                 ctl_last.next_value = None

\* SOC 15.5 above a minimum of 15.0, limit > 0: the strategy asked for more
\* and was not consulted, the candidate was 0
C21_Witness ==
  /\ CycleRan
  /\ get_value(SOLARFLOW_BATTERY_SOC) = 155
  /\ get_value(SOLARFLOW_MIN_SOC) = 150
  /\ get_value(SOLARFLOW_OUTPUT_LIMIT) > 0
  /\ controller = Some("MinimizeGrid")
  /\ compute # None /\ compute[1] > 0
  /\ ~ctl_last.consulted
  /\ ctl_last.next_value = Some(0)

\* C22: a control_loop cycle calls set_value at most once: once when a
\* candidate resulted (from the override or from the strategy), not at all when
\* none did, and it leaves the entity states it reads as they were.
C22_OneWritePerCycle ==
  [][ctl_last'.op = "control_loop" =>
       LET candidate ==
             IF controller_switch = Some("off") THEN None
             ELSE IF Depleted
                  THEN IF get_value(SOLARFLOW_OUTPUT_LIMIT) > 0
                       THEN Some(0) ELSE None
                  ELSE compute
       IN /\ Len(set_value_calls') <= 1
          /\ candidate # None => Len(set_value_calls') = 1
          /\ candidate = None => set_value_calls' = <<>>
          /\ ha_state' = ha_state]_vars

\* the strategy was consulted and returned None: nothing was written
C22_Witness ==
  /\ CycleRan
  /\ ctl_last.consulted
  /\ controller = Some("MinimizeGrid")
  /\ ctl_last.next_value = None
  /\ set_value_calls = <<>>
  /\ get_value(SOLARFLOW_OUTPUT_LIMIT) > 0

\* C26: a control_loop cycle in which SOC <= minimum SOC (a SOC sensor that
\* is unavailable reads as 0) never writes a positive output limit: it writes 0
\* or nothing, for every strategy and every grid power.
C26_NoDischargeWhenDepleted ==
  (/\ ctl_last.op = "control_loop"
   /\ get_value(SOLARFLOW_BATTERY_SOC) <= get_value(SOLARFLOW_MIN_SOC)) =>
    \A i \in DOMAIN set_value_calls : set_value_calls[i] = 0

\* the SOC sensor was unavailable while the house drew power from the grid and
\* the limit was 0: MinimizeGrid would have raised it, nothing was written
C26_Witness ==
  /\ CycleRan
  /\ SOLARFLOW_BATTERY_SOC \notin DOMAIN ha_state
  /\ SOLARFLOW_MIN_SOC \in DOMAIN ha_state
  /\ get_value(SOLARFLOW_OUTPUT_LIMIT) = 0
  /\ controller = Some("MinimizeGrid")
  /\ compute # None /\ compute[1] > 0
  /\ set_value_calls = <<>>

(***************************************************************************)
(* Property translation                                                    *)
(***************************************************************************)
\* the reports that decide the derived values and the scaled ones
TranslationReports ==
  {Report(Some(D1("outputPackPower", v)), None) : v \in {0, 300}}
    \cup {Report(Some(D1("solarInputPower", v)), None) : v \in {0, 800}}
    \cup {Report(Some(D1("packInputPower", v)), None) : v \in {0, 50}}
    \cup {Report(Some(D2("solarInputPower", v, "outputLimit", 100)), None) :
            v \in {0, 800}}
    \cup {Report(Some(D1("minSoc", 155)), None),
          Report(Some(D1("socSet", 955)), None),
          Report(Some(D1("inverseMaxPower", 800)), None)}

NextReport ==
  \/ TrySendDiscovery
  \/ PeriodicRequestAll
  \/ \E data \in FirmwareReports : FirmwareReport(data)
  \/ \E data \in TranslationReports : PropertiesReport(data)

SpecReport == Init /\ [][NextReport]_vars

ReportRan == last.op = "properties/report" /\ last.input[1].properties # None
ReportKeys == DOMAIN last.input[1].properties[1]
\* the state messages the last handler published for an item
StatesSent(item) ==
  {i \in DOMAIN sent : sent[i].kind = "state" /\ sent[i].topic = StateTopicOf(item)}

\* C7: overflow derivation. Whatever properties_report_received publishes for
\* solar_overflow_power is max(cached solar_input_power - cached
\* battery_output_power, 0) and is the cached value, which a handler that ran to
\* its end with a trigger key and all three powers cached has set to that too;
\* the cached value is never negative.
C7_OverflowDerivation ==
  LET expected == IF cache["solar_input_power"] >= cache["battery_output_power"]
                  THEN cache["solar_input_power"] - cache["battery_output_power"]
                  ELSE 0
  IN /\ ReportRan =>
          \A i \in StatesSent("solar_overflow_power") :
            /\ sent[i].payload = expected
            /\ cache["solar_overflow_power"] = sent[i].payload
     /\ (/\ ReportRan /\ last.error = None
         /\ ReportKeys \cap {"solarInputPower", "packInputPower"} # {}
         /\ {"solar_input_power", "battery_input_power"} \subseteq DOMAIN cache) =>
          /\ "solar_overflow_power" \in DOMAIN cache
          /\ cache["solar_overflow_power"] = expected
     /\ "solar_overflow_power" \in DOMAIN cache =>
          cache["solar_overflow_power"] >= 0

\* battery output power above solar input power: 0 was published
C7_Witness ==
  /\ ReportRan
  /\ StatesSent("solar_overflow_power") # {}
  /\ cache["battery_output_power"] > cache["solar_input_power"]
  /\ \A i \in StatesSent("solar_overflow_power") : sent[i].payload = 0

\* C8: a derived value is published only with all of its inputs cached; with
\* an input missing the derivation is skipped silently: no error is raised and
\* the remaining keys of the report are still processed.
C8_DerivedNeedInputs ==
  ReportRan =>
    /\ last.error = None
    /\ "outputLimit" \in ReportKeys =>
         /\ "output_limit" \in DOMAIN cache
         /\ cache["output_limit"] = last.input[1].properties[1]["outputLimit"]
    /\ StatesSent("solar_overflow_power") # {} =>
         {"solar_input_power", "battery_output_power"} \subseteq DOMAIN cache
    /\ StatesSent("state") # {} =>
         {"solar_input_power", "battery_output_power", "battery_input_power"}
           \subseteq DOMAIN cache

\* C9: aggregate state precedence. Whatever properties_report_received
\* publishes for 'state' is "discharging" if the cached battery_input_power is
\* > 0, else "charging" if the cached battery_output_power is > 0, else
\* "solar_passthrough" if the cached solar_input_power is > 0, else "idle";
\* an input that is not cached counts as 0.
C9_StatePrecedence ==
  LET discharge == IF "battery_input_power" \in DOMAIN cache
                   THEN cache["battery_input_power"] ELSE 0
      charge == IF "battery_output_power" \in DOMAIN cache
                THEN cache["battery_output_power"] ELSE 0
      solar == IF "solar_input_power" \in DOMAIN cache
               THEN cache["solar_input_power"] ELSE 0
      Expected(v) ==
        /\ discharge > 0 => v = "discharging"
        /\ (discharge <= 0 /\ charge > 0) => v = "charging"
        /\ (discharge <= 0 /\ charge <= 0 /\ solar > 0) => v = "solar_passthrough"
        /\ (discharge <= 0 /\ charge <= 0 /\ solar <= 0) => v = "idle"
  IN /\ ReportRan =>
          \A i \in StatesSent("state") :
            Expected(sent[i].payload) /\ cache["state"] = sent[i].payload
     /\ (/\ ReportRan /\ last.error = None
         /\ ReportKeys \cap {"outputPackPower", "solarInputPower",
                             "packInputPower"} # {}) =>
          "state" \in DOMAIN cache /\ Expected(cache["state"])

\* discharge and charge power both positive: "discharging" was published
C9_Witness ==
  /\ ReportRan
  /\ StatesSent("state") # {}
  /\ {"battery_input_power", "battery_output_power"} \subseteq DOMAIN cache
  /\ cache["battery_input_power"] > 0
  /\ cache["battery_output_power"] > 0
  /\ \A i \in StatesSent("state") : sent[i].payload = "discharging"

\* the decimal d is raw / 10 exactly
IsTenthOf(d, raw) ==
  d.tenths \in 0..9 /\ 10 * d.whole + d.tenths = raw

PercentDecoded(key, item) ==
  (ReportRan /\ key \in ReportKeys /\ last.error = None) =>
    /\ item \in DOMAIN cache
    /\ IsTenthOf(cache[item], last.input[1].properties[1][key])
    /\ \A i \in StatesSent(item) : sent[i].payload = cache[item]
    /\ Cardinality(StatesSent(item)) = IF item \in DOMAIN topics THEN 1 ELSE 0

\* C10: after a properties report with minSoc (socSet) has been decoded, the
\* value cached for min_soc (max_soc) is the raw value divided by 10, exactly,
\* and it is that value that is published, once, when the item is registered.
C10_PercentScale ==
  PercentDecoded("minSoc", "min_soc") /\ PercentDecoded("socSet", "max_soc")

\* minSoc 155 was published as 15.5
C10_Witness ==
  /\ ReportRan
  /\ "minSoc" \in ReportKeys
  /\ last.input[1].properties[1]["minSoc"] = 155
  /\ \E i \in StatesSent("min_soc") :
       sent[i].payload = [whole |-> 15, tenths |-> 5]

\* report keys that publish_state stores unchanged, and their items
DirectItems ==
  [outputPackPower |-> "battery_output_power",
   solarInputPower |-> "solar_input_power",
   packInputPower |-> "battery_input_power",
   outputLimit |-> "output_limit",
   inverseMaxPower |-> "max_inverter_input"]

\* C27: ordering of discovery and state. Every value published on an item's
\* state topic comes after that item's descriptor: the descriptor was
\* published by an earlier run or stands earlier in the same run's messages. A
\* value reported for an item that is not registered is stored in the cache and
\* nothing is published for it.
C27_DescriptorBeforeState ==
  [][/\ \A i \in DOMAIN sent' :
          sent'[i].kind = "state" =>
            \E item \in AllItems :
              /\ sent'[i].topic = StateTopicOf(item)
              /\ config_published'[item] >= 1
              /\ config_published[item] = 0 =>
                   \E j \in 1..(i - 1) :
                     sent'[j].kind = "config" /\ sent'[j].item = item
     /\ (ReportRan' /\ last'.error = None) =>
          \A key \in DOMAIN DirectItems \cap ReportKeys' :
            DirectItems[key] \notin DOMAIN topics =>
              /\ DirectItems[key] \in DOMAIN cache'
              /\ cache'[DirectItems[key]] = last'.input[1].properties[1][key]
              /\ StatesSent(DirectItems[key])' = {}]_vars

\* outputPackPower 300 was reported before battery_output_power was
\* registered: it is cached and nothing was published
C27_Witness ==
  /\ ReportRan
  /\ "outputPackPower" \in ReportKeys
  /\ "battery_output_power" \notin DOMAIN topics
  /\ "battery_output_power" \in DOMAIN cache
  /\ cache["battery_output_power"] = 300
  /\ sent = <<>>

\* the same report after discovery: the value went out on the state topic
C27_WitnessRegistered ==
  /\ ReportRan
  /\ "battery_output_power" \in DOMAIN topics
  /\ config_published["battery_output_power"] = 1
  /\ StatesSent("battery_output_power") # {}
  /\ cache["battery_output_power"] = 300

\* C28: for every registered item that has a cache entry, the value most
\* recently published on the item's state topic equals the cached value, also
\* when the device reported the value before the descriptor was published and
\* the descriptor declares a start value. Stated on the messages of the last
\* handler: the last one it published on the item's state topic, if any,
\* carries the cached value.
C28_PublishedMatchesCache ==
  \A item \in DOMAIN topics \cap DOMAIN cache :
    StatesSent(item) # {} =>
      LET latest == CHOOSE i \in StatesSent(item) :
                      \A j \in StatesSent(item) : j <= i
      IN sent[latest].payload = cache[item]

(***************************************************************************)
(* Message routing, commands and shutdown                                  *)
(***************************************************************************)
\* data['payload'] of a message on a static topic: a text json.loads cannot
\* decode, or the text of a JSON object
Undecodable == [json |-> None]
JsonText(value) == [json |-> Some(value)]
\* json.loads(payload): None stands for json.JSONDecodeError
json_loads(payload) == payload.json

EmptyDict == [x \in {} |-> 0]

\* a command payload is a str: for the handlers that call int() on it, the
\* sequence of its characters
Digits == <<"0", "1", "2", "3", "4", "5", "6", "7", "8", "9">>
IsDigit(c) == \E d \in DOMAIN Digits : Digits[d] = c
DigitValue(c) == (CHOOSE d \in DOMAIN Digits : Digits[d] = c) - 1

RECURSIVE DigitsValue(_, _)
DigitsValue(chars, acc) ==
  IF chars = <<>> THEN acc
  ELSE DigitsValue(Tail(chars), acc * 10 + DigitValue(Head(chars)))

\* int(state) of a str: an optional sign and decimal digits; None stands for
\* the ValueError of anything else
StrToInt(chars) ==
  LET signed == chars # <<>> /\ Head(chars) \in {"+", "-"}
      body == IF signed THEN Tail(chars) ELSE chars
  IN IF body = <<>> \/ \E i \in DOMAIN body : ~IsDigit(body[i])
     THEN None
     ELSE Some(IF signed /\ Head(chars) = "-"
               THEN 0 - DigitsValue(body, 0)
               ELSE DigitsValue(body, 0))

\* a command handler publishes one properties/write request
PublishWrite(st, properties) ==
  [st EXCEPT !.sent = Append(@, WriteMsg(properties))]
Raise(st, exception, what) ==
  [st EXCEPT !.error = Some(<<exception, what>>)]

\* "state_int < 0 or state_int > 30" of set_min_soc, negated
MinSocValidAny(state_int) == TRUE
MinSocValid(state_int) == ~(state_int < 0 \/ state_int > 30)

\* SolarFlow.set_min_soc
set_min_soc(st, state) ==
  LET state_int == StrToInt(state)
  IN IF state_int = None THEN Raise(st, "ValueError", "int")
     ELSE IF ~MinSocValid(state_int[1]) THEN st
     ELSE PublishWrite(st, D1("minSoc", state_int[1] * 10))

\* SolarFlow.set_max_soc
set_max_soc(st, state) ==
  LET state_int == StrToInt(state)
  IN IF state_int = None THEN Raise(st, "ValueError", "int")
     ELSE IF state_int[1] < 70 \/ state_int[1] > 100 THEN st
     ELSE PublishWrite(st, D1("socSet", state_int[1] * 10))

\* the properties of the two paired setters: the device takes the maximum
\* inverter input and the brand together
UnpairedWrite(inverseMaxPower, pvBrand) == D1("inverseMaxPower", inverseMaxPower)
PairedWrite(inverseMaxPower, pvBrand) ==
  D2("inverseMaxPower", inverseMaxPower, "pvBrand", pvBrand)

\* SolarFlow.set_max_inverter_input
set_max_inverter_input(st, state) ==
  LET state_int == StrToInt(state)
  IN IF state_int = None THEN Raise(st, "ValueError", "int")
     ELSE IF state_int[1] < 0 \/ state_int[1] > 1200 THEN st
     ELSE IF "pv_brand" \notin DOMAIN cache THEN st
     ELSE PublishWrite(st, PairedWrite(state_int[1],
                                       PV_BRANDS[cache["pv_brand"]]))

\* SolarFlow.set_pv_brand
set_pv_brand(st, state) ==
  IF state \notin DOMAIN PV_BRANDS THEN st
  ELSE IF "max_inverter_input" \notin DOMAIN cache THEN st
  ELSE PublishWrite(st, PairedWrite(cache["max_inverter_input"],
                                    PV_BRANDS[state]))

\* SolarFlow.set_bypass_mode
set_bypass_mode(st, state) ==
  IF state \notin DOMAIN BYPASS_MODES THEN st
  ELSE PublishWrite(st, D1("passMode", BYPASS_MODES[state]))

\* SolarFlow.set_output_limit
set_output_limit(st, state) ==
  IF "max_inverter_input" \notin DOMAIN cache THEN st
  ELSE LET state_int == StrToInt(state)
       IN IF state_int = None THEN Raise(st, "ValueError", "int")
          ELSE IF state_int[1] < 0 \/ state_int[1] > cache["max_inverter_input"]
               THEN st
               ELSE PublishWrite(st, D1("outputLimit", state_int[1]))

\* SolarFlow.set_buzzer_switch
set_buzzer_switch(st, state) ==
  PublishWrite(st, D1("buzzerSwitch", IF state = "ON" THEN 1 ELSE 0))

\* the bound method a descriptor carries as 'command_callback'
CallbackName(item) ==
  CASE item = "bypass_mode" -> "set_bypass_mode"
    [] item = "min_soc" -> "set_min_soc"
    [] item = "max_soc" -> "set_max_soc"
    [] item = "max_inverter_input" -> "set_max_inverter_input"
    [] item = "output_limit" -> "set_output_limit"
    [] item = "buzzer_switch" -> "set_buzzer_switch"
    [] item = "pv_brand" -> "set_pv_brand"

\* info['command_callback'](data)
Callback(item, st, data) ==
  LET st1 == [st EXCEPT !.handlers = Append(@, CallbackName(item))]
  IN CASE item = "bypass_mode" -> set_bypass_mode(st1, data)
       [] item = "min_soc" -> set_min_soc(st1, data)
       [] item = "max_soc" -> set_max_soc(st1, data)
       [] item = "max_inverter_input" -> set_max_inverter_input(st1, data)
       [] item = "output_limit" -> set_output_limit(st1, data)
       [] item = "buzzer_switch" -> set_buzzer_switch(st1, data)
       [] item = "pv_brand" -> set_pv_brand(st1, data)

\* the three tests of command_received on one descriptor
MatchesAny(info, topic) ==
  info.config.command_topic # None /\ info.command_callback # None
Matches(info, topic) ==
  /\ info.config.command_topic # None
  /\ info.config.command_topic[1] = topic
  /\ info.command_callback # None

\* self.topics.values() in insertion order; the pack items, which carry no
\* command topic, come after the static ones
TopicsOrder ==
  SelectSeq(StaticItems \o PackItemSeq(<<"PK1", "PK2">>),
            LAMBDA item : item \in DOMAIN topics)

\* SolarFlow.command_received: the loop over self.topics.values()
RECURSIVE command_received(_, _, _, _)
command_received(st, items, topic, data) ==
  IF items = <<>> \/ st.error # None THEN st
  ELSE LET info == topics[Head(items)]
           st1 == IF Matches(info, topic)
                  THEN Callback(info.command_callback[1], st, data)
                  ELSE st
       IN command_received(st1, Tail(items), topic, data)

FirmwareTopic == topic_name_for("firmware/report", FALSE)
TimeSyncTopic == topic_name_for("time-sync", FALSE)
ReportTopic == topic_name_for("properties/report", FALSE)
LogTopic == topic_name_for("log", FALSE)

\* self.topic_callbacks
topic_callbacks(topic) ==
  CASE topic = FirmwareTopic -> "firmware_report_received"
    [] topic = TimeSyncTopic -> "time_sync_received"
    [] topic = ReportTopic -> "properties_report_received"
    [] topic = LogTopic -> "log_received"

\* SolarFlow.time_sync_received: the reply carries a message id and the time
TimeSyncReplyMsg ==
  [kind |-> "time-sync/reply", topic |-> topic_name_for("time-sync/reply", TRUE),
   payload |-> {"messageId", "timestamp"}]

\* the parsed payload of a properties report as properties_report_received
\* reads it: 'properties' and 'packData', each present or not
AsReport(data) ==
  Report(IF "properties" \in DOMAIN data THEN Some(data["properties"]) ELSE None,
         IF "packData" \in DOMAIN data THEN Some(data["packData"]) ELSE None)

\* what message_received has done so far: the bridge fields a handler may
\* change, the messages published, the timers started, the exception that left
\* it, the handlers invoked and the warnings logged
Handling ==
  [device_serial |-> device_serial, module_versions |-> module_versions,
   cache |-> cache, battery_packs |-> battery_packs, sent |-> <<>>,
   run_in |-> <<>>, error |-> None, handlers |-> <<>>, log |-> <<>>]

\* self.topic_callbacks[topic](parsed_payload)
StaticCallback(topic, parsed_payload) ==
  LET name == topic_callbacks(topic)
      h == [Handling EXCEPT !.handlers = <<name>>]
  IN CASE name = "firmware_report_received" ->
            LET st == firmware_report_received(parsed_payload)
            IN [h EXCEPT !.device_serial = st.device_serial,
                         !.module_versions = st.module_versions,
                         !.error = st.error]
       [] name = "time_sync_received" ->
            [h EXCEPT !.sent = <<TimeSyncReplyMsg>>]
       [] name = "properties_report_received" ->
            LET data == AsReport(parsed_payload)
            IN IF data.properties = None THEN h
               ELSE LET st == properties_report_received(data)
                    IN [h EXCEPT !.cache = st.cache,
                                 !.battery_packs = st.battery_packs,
                                 !.sent = st.sent, !.run_in = st.run_in,
                                 !.error = st.error]
       [] name = "log_received" ->
            LET st == log_received(parsed_payload)
            IN [h EXCEPT !.device_serial = st.device_serial]

\* the branch message_received takes for a topic
Route(topic) ==
  IF topic \in StaticTopics THEN "static"
  ELSE IF topic \in command_topics THEN "command"
  ELSE "unrouted"

\* the body of SolarFlow.message_received
message_received(topic, payload) ==
  CASE Route(topic) = "static" ->
         LET parsed_payload == json_loads(payload)
         IN IF parsed_payload = None
            THEN [Handling EXCEPT !.log = <<"Failed to decode JSON">>]
            ELSE StaticCallback(topic, parsed_payload[1])
    [] Route(topic) = "command" ->
         command_received(Handling, TopicsOrder, topic, payload)
    [] Route(topic) = "unrouted" ->
         [Handling EXCEPT !.log = <<"no callback registered">>]

\* SolarFlow.message_received for one MQTT_MESSAGE event
MessageReceived(topic, payload) ==
  /\ bridge_status = "running"
  /\ LET h == message_received(topic, payload)
     IN /\ discovery_timers + Len(h.run_in) <= MaxTimers
        /\ device_serial' = h.device_serial
        /\ module_versions' = h.module_versions
        /\ cache' = h.cache
        /\ battery_packs' = h.battery_packs
        /\ discovery_timers' = discovery_timers + Len(h.run_in)
        /\ sent' = h.sent
        /\ last' = LastOp("message_received",
                          [route |-> Route(topic), handlers |-> h.handlers,
                           log |-> h.log],
                          h.error, h.run_in, Some(<<topic, payload>>))
  /\ UNCHANGED <<bridge_status, topics, command_topics, subscribed,
                 periodic_timers, config_published>>
  /\ UNCHANGED ctlVars

\* SolarFlow.terminate: mqtt_unsubscribe for the keys of topic_callbacks and
\* for command_topics
Terminate ==
  /\ bridge_status = "running"
  /\ bridge_status' = "terminated"
  /\ subscribed' = (subscribed \ StaticTopics) \ command_topics
  /\ sent' = <<>>
  /\ last' = LastOp("terminate", "ok", None, <<>>, None)
  /\ UNCHANGED <<device_serial, module_versions, battery_packs, topics,
                 command_topics, cache, discovery_timers, periodic_timers,
                 config_published>>
  /\ UNCHANGED ctlVars

\* firmware reports: undecodable, an empty object, one without 'modules', one
\* without 'deviceSn', a complete one
FirmwarePayloads ==
  {Undecodable,
   JsonText(EmptyDict),
   JsonText(D1("deviceSn", "SN1")),
   JsonText(D1("modules", <<[module |-> "MASTER", version |-> 4100]>>)),
   JsonText(D2("deviceSn", "SN1",
               "modules", <<[module |-> "MASTER", version |-> 4100]>>))}

LogPayloads == {JsonText(D1("log", D1("sn", "SN1")))}
TimeSyncPayloads == {JsonText(EmptyDict)}

\* properties reports: the ones discovery waits for, enum codes known and
\* unknown together with a key decoded after them, and an undecodable text
ReportPayloads ==
  {Undecodable,
   JsonText(D1("properties", D1("inverseMaxPower", 800))),
   JsonText(D2("properties", D1("packNum", 1),
               "packData", <<D1("sn", "PK1")>>)),
   JsonText(D1("properties", D1("minSoc", 155))),
   JsonText(D1("properties", D2("passMode", 0, "outputLimit", 100))),
   JsonText(D1("properties", D2("passMode", 7, "outputLimit", 100))),
   JsonText(D1("properties", D2("pvBrand", 9, "buzzerSwitch", 1)))}

\* commands whose handler calls int() on the payload
NumberCommands ==
  {<<CommandTopicOf("min_soc"), text>> :
     text \in {<<"3", "5">>, <<"-", "1">>, <<"0">>, <<"3", "0">>, <<"3", "1">>,
               <<"1", "5">>, <<"1", "5", ".", "5">>}}
    \cup {<<CommandTopicOf("output_limit"), <<"5", "0">>>>,
          <<CommandTopicOf("max_soc"), <<"8", "0">>>>,
          <<CommandTopicOf("max_inverter_input"), <<"6", "0", "0">>>>}

\* commands whose handler compares the payload with names
NameCommands ==
  {<<CommandTopicOf("bypass_mode"), "always_on">>,
   <<CommandTopicOf("pv_brand"), "hoymiles">>,
   <<CommandTopicOf("buzzer_switch"), "ON">>,
   <<<<"solarflow", "other", "set">>, "ON">>}

NextMessages ==
  \/ TrySendDiscovery
  \/ PeriodicRequestAll
  \/ \E payload \in FirmwarePayloads : MessageReceived(FirmwareTopic, payload)
  \/ \E payload \in LogPayloads : MessageReceived(LogTopic, payload)
  \/ \E payload \in TimeSyncPayloads : MessageReceived(TimeSyncTopic, payload)
  \/ \E payload \in ReportPayloads : MessageReceived(ReportTopic, payload)
  \/ \E command \in NumberCommands : MessageReceived(command[1], command[2])
  \/ \E command \in NameCommands : MessageReceived(command[1], command[2])
  \/ Terminate

SpecMessages == Init /\ [][NextMessages]_vars

\* message_received has just handled a message; its topic and payload
MessageHandled == last.op = "message_received"
MessageTopic == last.input[1][1]
MessagePayload == last.input[1][2]
\* the handlers the last message invoked, in order
HandlersFired == last.result.handlers
WritesSent == {i \in DOMAIN sent : sent[i].kind = "properties/write"}

\* C11: command validation for min SOC. A command delivered to set_min_soc
\* with a value outside [0, 30], or with no integer at all, publishes nothing
\* (no properties/write request, no min_soc state) and leaves the cache as it
\* was; an integer v in [0, 30] publishes exactly one write request, carrying
\* minSoc = 10 * v.
C11_MinSocValidation ==
  [][(MessageHandled' /\ HandlersFired' = <<"set_min_soc">>) =>
       LET v == StrToInt(MessagePayload')
       IN /\ (v = None \/ (v # None /\ (v[1] < 0 \/ v[1] > 30))) =>
               /\ sent' = <<>>
               /\ cache' = cache
          /\ (v # None /\ v[1] >= 0 /\ v[1] <= 30) =>
               /\ Len(sent') = 1
               /\ sent'[1].kind = "properties/write"
               /\ sent'[1].topic = <<"iot", "prefix/device_id", "properties/write">>
               /\ DOMAIN sent'[1].payload.properties = {"minSoc"}
               /\ sent'[1].payload.properties["minSoc"] = 10 * v[1]
               /\ cache' = cache]_vars

\* "35" was delivered to set_min_soc with min_soc cached as 15.5: nothing was
\* published and 15.5 is still cached
C11_Witness ==
  /\ MessageHandled
  /\ HandlersFired = <<"set_min_soc">>
  /\ MessagePayload = <<"3", "5">>
  /\ sent = <<>>
  /\ "min_soc" \in DOMAIN cache
  /\ cache["min_soc"] = [whole |-> 15, tenths |-> 5]

\* C15: topic routing. Every message takes exactly one branch: a message on
\* one of the four static topics goes to that topic's handler (and to no
\* handler when its payload cannot be decoded); otherwise a message on a topic
\* of command_topics goes to the command callback of the one registered item
\* whose descriptor has that command topic; otherwise only the unrouted-topic
\* warning is logged. No message fires two handlers.
C15_ExactlyOneRoute ==
  MessageHandled =>
    LET topic == MessageTopic
        static == [t \in {<<"", "prefix/device_id", "firmware/report">>,
                          <<"", "prefix/device_id", "time-sync">>,
                          <<"", "prefix/device_id", "properties/report">>,
                          <<"", "prefix/device_id", "log">>} |->
                     CASE t[3] = "firmware/report" -> "firmware_report_received"
                       [] t[3] = "time-sync" -> "time_sync_received"
                       [] t[3] = "properties/report" -> "properties_report_received"
                       [] t[3] = "log" -> "log_received"]
        owners == {item \in DOMAIN topics :
                     topics[item].config.command_topic = Some(topic)}
    IN /\ Len(HandlersFired) <= 1
       /\ topic \in DOMAIN static =>
            /\ last.result.route = "static"
            /\ MessagePayload.json # None => HandlersFired = <<static[topic]>>
            /\ MessagePayload.json = None => HandlersFired = <<>>
            /\ "no callback registered" \notin SeqRange(last.result.log)
       /\ (topic \notin DOMAIN static /\ topic \in command_topics) =>
            /\ last.result.route = "command"
            /\ Cardinality(owners) = 1
            /\ \A item \in owners :
                 HandlersFired = <<CallbackName(item)>>
            /\ last.result.log = <<>>
       /\ (topic \notin DOMAIN static /\ topic \notin command_topics) =>
            /\ last.result.route = "unrouted"
            /\ HandlersFired = <<>>
            /\ last.result.log = <<"no callback registered">>
            /\ sent = <<>>

\* a message on the command topic of output_limit fired set_output_limit alone
C15_Witness ==
  /\ MessageHandled
  /\ MessageTopic = <<"solarflow", "output_limit", "set">>
  /\ MessageTopic \in command_topics
  /\ HandlersFired = <<"set_output_limit">>
  /\ Cardinality(WritesSent) = 1

\* C16: a message on a static topic whose payload cannot be decoded, or a
\* firmware report lacking deviceSn or modules, is dropped: no error leaves
\* message_received, no timer is started, and device serial, cache, roster and
\* registered items are as before.
C16_MalformedDropped ==
  [][(/\ MessageHandled'
      /\ MessageTopic' \in StaticTopics
      /\ \/ MessagePayload'.json = None
         \/ /\ MessageTopic' = FirmwareTopic
            /\ {"deviceSn", "modules"} \ DOMAIN MessagePayload'.json[1] # {}) =>
       /\ last'.error = None
       /\ last'.run_in = <<>>
       /\ UNCHANGED <<device_serial, cache, battery_packs, topics>>]_vars

\* the properties of the report the last message carried, if it carried one
ReportHandled ==
  /\ MessageHandled
  /\ HandlersFired = <<"properties_report_received">>
  /\ "properties" \in DOMAIN MessagePayload.json[1]
ReportProperties == MessagePayload.json[1]["properties"]

\* C17: in a properties report, a passMode outside {0, 1, 2} or a pvBrand
\* outside the brand table is skipped for that field only: no error leaves the
\* handler and the other keys of the report (outputLimit, buzzerSwitch) are
\* decoded and cached.
C17_EnumErrorSkipsField ==
  (/\ ReportHandled
   /\ \/ /\ "passMode" \in DOMAIN ReportProperties
         /\ ReportProperties["passMode"] \notin {0, 1, 2}
      \/ /\ "pvBrand" \in DOMAIN ReportProperties
         /\ ReportProperties["pvBrand"] \notin {0, 1, 2, 3, 4, 5, 15}) =>
    /\ last.error = None
    /\ "outputLimit" \in DOMAIN ReportProperties =>
         /\ "output_limit" \in DOMAIN cache
         /\ cache["output_limit"] = ReportProperties["outputLimit"]
    /\ "buzzerSwitch" \in DOMAIN ReportProperties =>
         "buzzer_switch" \in DOMAIN cache

\* C19: shutdown. After terminate of a component no timer it scheduled is
\* outstanding (discovery retry, periodic read-all, control loop) and no topic
\* is subscribed, static or command.
C19_ShutdownClean ==
  /\ bridge_status = "terminated" =>
       /\ discovery_timers = 0
       /\ periodic_timers = 0
       /\ subscribed = {}
  /\ ctl_status = "terminated" => ~loop_handle


(***************************************************************************)
(* Command validation                                                      *)
(***************************************************************************)
\* the reports the setters depend on: two maximum inverter inputs and a
\* brand; and a pack enumeration, whose discovery run subscribes the command
\* topics of the items the first run registered
CommandReports ==
  {JsonText(D1("properties", D1("inverseMaxPower", 600))),
   JsonText(D1("properties", D1("inverseMaxPower", 800))),
   JsonText(D1("properties", D1("pvBrand", 1))),
   JsonText(D2("properties", D1("packNum", 1),
               "packData", <<D1("sn", "PK1")>>))}

\* for each number item a value inside its range and one outside; 700 is
\* inside or outside the range of output_limit depending on the cached maximum
RangeCommands ==
  {<<CommandTopicOf("min_soc"), <<"3", "0">>>>,
   <<CommandTopicOf("min_soc"), <<"3", "1">>>>,
   <<CommandTopicOf("min_soc"), <<"-", "1">>>>,
   <<CommandTopicOf("max_soc"), <<"8", "0">>>>,
   <<CommandTopicOf("max_soc"), <<"6", "0">>>>,
   <<CommandTopicOf("max_inverter_input"), <<"6", "0", "0">>>>,
   <<CommandTopicOf("max_inverter_input"), <<"1", "3", "0", "0">>>>,
   <<CommandTopicOf("output_limit"), <<"5", "0">>>>,
   <<CommandTopicOf("output_limit"), <<"7", "0", "0">>>>,
   <<CommandTopicOf("output_limit"), <<"1", ".", "5">>>>}

\* for each option item a name of its table and one outside; the three kinds
\* of buzzer payload
OptionCommands ==
  {<<CommandTopicOf("bypass_mode"), "always_on">>,
   <<CommandTopicOf("bypass_mode"), "sometimes">>,
   <<CommandTopicOf("pv_brand"), "hoymiles">>,
   <<CommandTopicOf("pv_brand"), "acme">>,
   <<CommandTopicOf("buzzer_switch"), "ON">>,
   <<CommandTopicOf("buzzer_switch"), "OFF">>,
   <<CommandTopicOf("buzzer_switch"), "maybe">>}

NextCommands ==
  \/ TrySendDiscovery
  \/ PeriodicRequestAll
  \/ \E payload \in {JsonText(D2("deviceSn", "SN1", "modules", <<>>))} :
       MessageReceived(FirmwareTopic, payload)
  \/ \E payload \in CommandReports : MessageReceived(ReportTopic, payload)
  \/ \E command \in RangeCommands : MessageReceived(command[1], command[2])
  \/ \E command \in OptionCommands : MessageReceived(command[1], command[2])

SpecCommands == Init /\ [][NextCommands]_vars

\* a command callback has just run on the last message
CommandHandled ==
  /\ MessageHandled
  /\ last.result.route = "command"
  /\ Len(HandlersFired) = 1

\* C23: invalid commands are rejected. For every commandable item and every
\* payload outside the item's grammar (a number outside [0,30] for min_soc,
\* [70,100] for max_soc, [0,1200] for max_inverter_input, [0, cached
\* max_inverter_input] for output_limit; a name outside the table for
\* bypass_mode and pv_brand; anything but "ON"/"OFF" for buzzer_switch), no
\* properties/write message is published and the cache is not changed.
C23_InvalidCommandRejected ==
  [][CommandHandled' =>
       LET handler == HandlersFired'[1]
           payload == MessagePayload'
           number == StrToInt(payload)
           outside(lo, hi) ==
             number = None \/ (number # None /\ (number[1] < lo \/ number[1] > hi))
           invalid ==
             CASE handler = "set_min_soc" -> outside(0, 30)
               [] handler = "set_max_soc" -> outside(70, 100)
               [] handler = "set_max_inverter_input" -> outside(0, 1200)
               [] handler = "set_output_limit" ->
                    /\ "max_inverter_input" \in DOMAIN cache
                    /\ outside(0, cache["max_inverter_input"])
               [] handler = "set_bypass_mode" -> payload \notin DOMAIN BYPASS_MODES
               [] handler = "set_pv_brand" -> payload \notin DOMAIN PV_BRANDS
               [] handler = "set_buzzer_switch" -> payload \notin {"ON", "OFF"}
       IN invalid => (sent' = <<>> /\ cache' = cache)]_vars

\* C24: writes that need a cached value. set_pv_brand and set_output_limit
\* publish nothing while max_inverter_input is not cached, and
\* set_max_inverter_input publishes nothing while pv_brand is not cached; no
\* error leaves the handler in these cases. With the prerequisite cached, a
\* valid command publishes exactly one write request, which for
\* set_max_inverter_input and set_pv_brand carries both inverseMaxPower and
\* pvBrand: the commanded value and the cached partner.
C24_PrerequisiteOrSkip ==
  [][CommandHandled' =>
       LET handler == HandlersFired'[1]
           payload == MessagePayload'
           number == StrToInt(payload)
           one_write ==
             /\ Len(sent') = 1
             /\ sent'[1].kind = "properties/write"
           properties == sent'[1].payload.properties
       IN /\ (handler = "set_max_inverter_input" /\ number # None
                /\ number[1] >= 0 /\ number[1] <= 1200) =>
               IF "pv_brand" \notin DOMAIN cache
               THEN sent' = <<>> /\ last'.error = None
               ELSE /\ one_write
                    /\ DOMAIN properties = {"inverseMaxPower", "pvBrand"}
                    /\ properties["inverseMaxPower"] = number[1]
                    /\ properties["pvBrand"] = PV_BRANDS[cache["pv_brand"]]
          /\ (handler = "set_pv_brand" /\ payload \in DOMAIN PV_BRANDS) =>
               IF "max_inverter_input" \notin DOMAIN cache
               THEN sent' = <<>> /\ last'.error = None
               ELSE /\ one_write
                    /\ DOMAIN properties = {"inverseMaxPower", "pvBrand"}
                    /\ properties["inverseMaxPower"] = cache["max_inverter_input"]
                    /\ properties["pvBrand"] = PV_BRANDS[payload]
          /\ handler = "set_output_limit" =>
               IF "max_inverter_input" \notin DOMAIN cache
               THEN sent' = <<>> /\ last'.error = None
               ELSE (number # None /\ number[1] >= 0
                       /\ number[1] <= cache["max_inverter_input"]) =>
                      /\ one_write
                      /\ DOMAIN properties = {"outputLimit"}
                      /\ properties["outputLimit"] = number[1]
          /\ cache' = cache]_vars

\* "600" was delivered to set_max_inverter_input before any brand was
\* reported: nothing was published and no error was raised
C24_WitnessSkipped ==
  /\ CommandHandled
  /\ HandlersFired = <<"set_max_inverter_input">>
  /\ MessagePayload = <<"6", "0", "0">>
  /\ "pv_brand" \notin DOMAIN cache
  /\ sent = <<>>
  /\ last.error = None

\* "hoymiles" was delivered to set_pv_brand with max_inverter_input cached as
\* 800: one write carrying both 800 and the brand code
C24_Witness ==
  /\ CommandHandled
  /\ HandlersFired = <<"set_pv_brand">>
  /\ MessagePayload = "hoymiles"
  /\ cache["max_inverter_input"] = 800
  /\ Len(sent) = 1
  /\ DOMAIN sent[1].payload.properties = {"inverseMaxPower", "pvBrand"}

\* C29: after discovery the 'max' of the published output_limit descriptor
\* equals the cached max_inverter_input that set_output_limit validates
\* against, also after a later report changes inverseMaxPower.
C29_AdvertisedMaxIsCachedMax ==
  "output_limit" \in DOMAIN topics =>
    /\ "max_inverter_input" \in DOMAIN cache
    /\ topics["output_limit"].config.max = Some(cache["max_inverter_input"])

=============================================================================
